---- MODULE Spec2Model ----
(***************************************************************************)
(* Language Mapper (src/app.py): the module-level script that fetches the  *)
(* country GeoJSON and the REST Countries metadata, builds the two lookup  *)
(* maps, selects a projection and runs the feature loop.                   *)
(*                                                                         *)
(* Representation of Python values                                         *)
(*   str            a sequence of one-character strings, <<"a","b">>       *)
(*   None           the one-element sequence <<"None">>                    *)
(*   "—" (em dash)  the one-element sequence <<"--">>                      *)
(*   list of str    a sequence of str                                      *)
(*   computed number (area, centroid, bbox): <<>> when it is the "—"       *)
(*                  placeholder, <<n>> when it is a number                 *)
(*   metadata item  a record of its values plus keys, the set of the       *)
(*                  fields it has with a value that is not None            *)
(*   dict (insertion ordered) of the lookup maps: a sequence of            *)
(*                  [key, val] entries; val is the position of the item in *)
(*                  rest_all (a reference), 0 standing for "no item"       *)
(*   feature properties: a function from the keys present to str values    *)
(***************************************************************************)
EXTENDS Integers, Sequences, FiniteSets, TLC

VARIABLES
    \* the outside world, fixed for one run of the script
    geo_remote,        \* what GEOJSON_URL serves: [ok, features]
    rest_remote,       \* what REST Countries serves: [first, second, filtered, full]
    crs_env,           \* pyproj: [cons, smoke], the CRS ids whose construction / smoke test succeed
    \* the script's state
    pc,                \* position in the script
    raised,            \* the exception that ended the script, "" when none
    geojson,           \* features loaded by fetch_geojson
    requests,          \* the requests fetch_rest_all_with_fallback issued, in order
    rest_all,
    rest_msg,
    shown,             \* st.warning / st.error calls, in order
    rest_by_cca3,
    rest_by_name_lower,
    transformer,
    used_crs,
    cur,               \* the loop's module-level names after its latest iteration
    out                \* one entry per popup added to the map, in order

vars == <<geo_remote, rest_remote, crs_env, pc, raised, geojson, requests, rest_all,
          rest_msg, shown, rest_by_cca3, rest_by_name_lower, transformer, used_crs, cur, out>>

env == <<geo_remote, rest_remote, crs_env>>

----------------------------------------------------------------------------
\* Bounds of the model

\* longest metadata list of the resolution scenarios
MaxMeta == 3

\* longest feature sequence of the geometry scenarios
MaxFeatures == 2

\* most code keys a feature carries in the key-order scenarios
MaxCodeKeys == 3

----------------------------------------------------------------------------
\* Python values

None == <<"None">>

Dash == <<"--">>

UpperChars == <<"A", "B", "C", "D", "E", "F", "G", "H">>

LowerChars == <<"a", "b", "c", "d", "e", "f", "g", "h">>

\* str.lower() / str.upper() on one character
LowerChar(c) ==
    IF \E k \in 1..Len(UpperChars) : UpperChars[k] = c
    THEN LowerChars[CHOOSE k \in 1..Len(UpperChars) : UpperChars[k] = c]
    ELSE c

UpperChar(c) ==
    IF \E k \in 1..Len(LowerChars) : LowerChars[k] = c
    THEN UpperChars[CHOOSE k \in 1..Len(LowerChars) : LowerChars[k] = c]
    ELSE c

Lower(s) == [k \in 1..Len(s) |-> LowerChar(s[k])]

Upper(s) == [k \in 1..Len(s) |-> UpperChar(s[k])]

\* str.strip(): leading and trailing blanks removed
RECURSIVE LStrip(_)
LStrip(s) ==
    IF s # <<>> /\ Head(s) = " " THEN LStrip(Tail(s)) ELSE s

RECURSIVE RStrip(_)
RStrip(s) ==
    IF s # <<>> /\ s[Len(s)] = " " THEN RStrip(SubSeq(s, 1, Len(s) - 1)) ELSE s

Strip(s) == RStrip(LStrip(s))

\* needle in hay
Contains(hay, needle) ==
    \E k \in 0..(Len(hay) - Len(needle)) : SubSeq(hay, k + 1, k + Len(needle)) = needle

\* truth value of a str / list / None
Truthy(v) == v # None /\ v # <<>>

\* a or b
Or(a, b) == IF Truthy(a) THEN a ELSE b

\* sep.join(list)
RECURSIVE Join(_, _)
Join(sep, list) ==
    IF list = <<>> THEN <<>>
    ELSE IF Len(list) = 1 THEN list[1]
    ELSE list[1] \o sep \o Join(sep, Tail(list))

CommaSpace == <<",", " ">>

\* dict.get(k) on a feature's property mapping
Get(props, k) == IF k \in DOMAIN props THEN props[k] ELSE None

----------------------------------------------------------------------------
\* The insertion-ordered dicts rest_by_cca3 and rest_by_name_lower

HasKey(d, k) == \E j \in 1..Len(d) : d[j].key = k

\* d.get(k): the item reference stored under k, 0 (None) when absent
DictGet(d, k) ==
    IF HasKey(d, k) THEN d[CHOOSE j \in 1..Len(d) : d[j].key = k].val ELSE 0

\* d[k] = v with a moved key: the entry deleted and appended again
DictSetMoveToEnd(d, k, v) ==
    SelectSeq(d, LAMBDA e : e.key # k) \o <<[key |-> k, val |-> v]>>

\* d[k] = v: a new key is appended, an existing key keeps its place and takes v
DictSet(d, k, v) ==
    IF HasKey(d, k)
    THEN [j \in 1..Len(d) |-> IF d[j].key = k THEN [key |-> k, val |-> v] ELSE d[j]]
    ELSE Append(d, [key |-> k, val |-> v])

----------------------------------------------------------------------------
\* fetch_geojson and the guard around it (lines 30-34, 92-96)

\* the features of the response, or the exception raise_for_status / json() raised
fetch_geojson(remote) ==
    IF remote.ok
    THEN [raised |-> FALSE, features |-> remote.features]
    ELSE [raised |-> TRUE, features |-> <<>>]

----------------------------------------------------------------------------
\* fetch_rest_all_with_fallback (lines 36-65)

\* outcomes of one requests.get(...) + raise_for_status() + json()
NetOutcomes == {"ok", "http_error", "net_error", "bad_json"}

MsgNone == "None"

MsgRetry == "REST Countries filtered request failed. Retrying without fields."

MsgFallback == "Filtered request error; used unfiltered fallback."

MsgFailed == "Failed to fetch REST Countries data"

\* the message of the successful fallback dropped
fetch_silent_fallback(remote) ==
    IF remote.first = "ok"
    THEN [data |-> remote.filtered, msg |-> MsgNone, requests |-> <<"filtered">>]
    ELSE IF remote.second = "ok"
    THEN [data |-> remote.full, msg |-> MsgNone,
          requests |-> <<"filtered", "unfiltered">>]
    ELSE [data |-> <<>>, msg |-> MsgFailed,
          requests |-> <<"filtered", "unfiltered">>]

fetch_rest_all_with_fallback(remote) ==
    IF remote.first = "ok"
    THEN \* line 45-47
         [data |-> remote.filtered, msg |-> MsgNone, requests |-> <<"filtered">>]
    ELSE IF remote.first = "http_error"
    THEN \* except requests.HTTPError, lines 48-57
         IF remote.second = "ok"
         THEN [data |-> remote.full, msg |-> MsgRetry,
               requests |-> <<"filtered", "unfiltered">>]
         ELSE [data |-> <<>>, msg |-> MsgFailed,
               requests |-> <<"filtered", "unfiltered">>]
    ELSE \* except Exception, lines 58-65
         IF remote.second = "ok"
         THEN [data |-> remote.full, msg |-> MsgFallback,
               requests |-> <<"filtered", "unfiltered">>]
         ELSE [data |-> <<>>, msg |-> MsgFailed,
               requests |-> <<"filtered", "unfiltered">>]

\* lines 100-104: what the page shows about the metadata fetch
fetch_notices(data, msg) ==
    (IF msg # MsgNone /\ msg # "" THEN <<[kind |-> "warning", text |-> msg]>> ELSE <<>>)
    \o (IF data = <<>>
        THEN <<[kind |-> "error", text |-> "REST Countries data unavailable"]>>
        ELSE <<>>)

----------------------------------------------------------------------------
\* The lookup maps (lines 107-115)

\* rest_by_cca3 after the first n items
RECURSIVE build_by_cca3(_, _)
build_by_cca3(items, n) ==
    IF n = 0 THEN <<>>
    ELSE LET d == build_by_cca3(items, n - 1)
             cca3 == items[n].cca3
         IN  IF Truthy(cca3) THEN DictSet(d, Upper(cca3), n) ELSE d

\* rest_by_name_lower after the first n items
RECURSIVE build_by_name_lower(_, _)
build_by_name_lower(items, n) ==
    IF n = 0 THEN <<>>
    ELSE LET d == build_by_name_lower(items, n - 1)
             common == items[n].common
         IN  IF Truthy(common) THEN DictSet(d, Lower(common), n) ELSE d

----------------------------------------------------------------------------
\* get_transformer (lines 118-128)

Candidates == <<"EPSG:6933", "ESRI:54009", "EPSG:3857">>

Fallback == "EPSG:3857"

\* Transformer.from_crs("EPSG:4326", tgt) followed by transform(0, 0) raises nothing
CandidateWorks(e, tgt) == tgt \in e.cons /\ tgt \in e.smoke

\* the smoke test left out: a candidate is taken as soon as it can be constructed
get_transformer_no_smoke(e) ==
    LET built == {k \in 1..Len(Candidates) : Candidates[k] \in e.cons}
        first == CHOOSE k \in built : \A h \in built : k <= h
    IN  IF built = {}
        THEN [raised |-> TRUE, transformer |-> "", used_crs |-> ""]
        ELSE [raised |-> FALSE, transformer |-> Candidates[first],
              used_crs |-> Candidates[first]]

\* the loop from candidate k on, then line 126
RECURSIVE get_transformer_from(_, _)
get_transformer_from(e, k) ==
    IF k > Len(Candidates)
    THEN \* line 126, outside any try
         IF Fallback \in e.cons
         THEN [raised |-> FALSE, transformer |-> Fallback, used_crs |-> Fallback]
         ELSE [raised |-> TRUE, transformer |-> "", used_crs |-> ""]
    ELSE IF CandidateWorks(e, Candidates[k])
         THEN [raised |-> FALSE, transformer |-> Candidates[k], used_crs |-> Candidates[k]]
         ELSE get_transformer_from(e, k + 1)

get_transformer(e) == get_transformer_from(e, 1)

----------------------------------------------------------------------------
\* Utilities (lines 68-89)

Keys == <<"ISO_A3", "ISO3", "iso_a3", "ADM0_A3", "adm0_a3", "CCA3", "cca3", "ISO_A3_EH">>

\* the string "-99"
NoData == <<"-", "9", "9">>

\* the for loop of extract_iso3 from key k on
RECURSIVE extract_iso3_from(_, _)
extract_iso3_from(props, k) ==
    IF k > Len(Keys) THEN None
    ELSE LET v == Get(props, Keys[k])
         IN  IF Truthy(v) /\ v # NoData THEN v ELSE extract_iso3_from(props, k + 1)

\* the -99 test left out: the first non-empty value wins
extract_iso3_keep_nodata(props) ==
    LET filled == {k \in 1..Len(Keys) : Truthy(Get(props, Keys[k]))}
        first == CHOOSE k \in filled : \A h \in filled : k <= h
    IN  IF filled = {} THEN None ELSE props[Keys[first]]

extract_iso3(props) ==
    IF DOMAIN props = {} THEN None ELSE extract_iso3_from(props, 1)

DigitChars == <<"0", "1", "2", "3", "4", "5", "6", "7", "8", "9">>

RECURSIVE Digits(_)
Digits(n) ==
    IF n < 10 THEN <<DigitChars[n + 1]>>
    ELSE Digits(n \div 10) \o <<DigitChars[(n % 10) + 1]>>

\* a group of three digits, zero padded
Group3(n) ==
    <<DigitChars[(n \div 100) + 1], DigitChars[((n \div 10) % 10) + 1], DigitChars[(n % 10) + 1]>>

\* f"{int(n):,}" for a non-negative integer
RECURSIVE fmt_num(_)
fmt_num(n) ==
    IF n < 1000 THEN Digits(n)
    ELSE fmt_num(n \div 1000) \o <<",">> \o Group3(n % 1000)

\* round(n / d) to the nearest integer, ties to even (d > 0)
RoundDiv(n, d) ==
    LET q == n \div d
        r == n % d
    IN  IF 2 * r > d \/ (2 * r = d /\ q % 2 = 1) THEN q + 1 ELSE q

\* bbox_to_string: south-west corner, then north-east corner, as (lat, lon), each
\* rounded to 4 decimals; bounds are (minx, miny, maxx, maxy) in 1e-5 degrees
bbox_to_string(bounds) ==
    <<RoundDiv(bounds[2], 10), RoundDiv(bounds[1], 10),
      RoundDiv(bounds[4], 10), RoundDiv(bounds[3], 10)>>

----------------------------------------------------------------------------
\* Feature loop: record resolution (lines 142-157)

\* (props.get("ADMIN") or props.get("NAME") or props.get("name") or last)
NameOr(props, last) ==
    Or(Get(props, "ADMIN"), Or(Get(props, "NAME"), Or(Get(props, "name"), last)))

geo_name_of(props) == Strip(NameOr(props, <<>>))

\* lines 154-157: the first entry, in insertion order, whose key contains needle
substring_scan(d, needle) ==
    LET hits == {j \in 1..Len(d) : Contains(d[j].key, needle)}
    IN  IF hits = {} THEN 0
        ELSE d[CHOOSE j \in hits : \A h \in hits : j <= h].val

\* the name steps run first, the code lookup only when they find nothing
resolve_names_first(props, by_cca3, by_name) ==
    LET iso3 == extract_iso3(props)
        geo_name == geo_name_of(props)
        exact == IF geo_name # <<>> THEN DictGet(by_name, Lower(geo_name)) ELSE 0
        scan == IF geo_name # <<>> THEN substring_scan(by_name, Lower(geo_name)) ELSE 0
        code == IF Truthy(iso3) THEN DictGet(by_cca3, Upper(iso3)) ELSE 0
    IN  IF exact # 0 THEN [iso3 |-> iso3, rest_obj |-> exact, via |-> "exact"]
        ELSE IF scan # 0 THEN [iso3 |-> iso3, rest_obj |-> scan, via |-> "substring"]
        ELSE IF code # 0 THEN [iso3 |-> iso3, rest_obj |-> code, via |-> "code"]
        ELSE [iso3 |-> iso3, rest_obj |-> 0, via |-> "none"]

\* the exact-name lookup left out: names are resolved by the substring scan alone
resolve_scan_only(props, by_cca3, by_name) ==
    LET iso3 == extract_iso3(props)
        geo_name == geo_name_of(props)
        code == IF Truthy(iso3) THEN DictGet(by_cca3, Upper(iso3)) ELSE 0
        scan == IF geo_name # <<>> THEN substring_scan(by_name, Lower(geo_name)) ELSE 0
    IN  IF code # 0 THEN [iso3 |-> iso3, rest_obj |-> code, via |-> "code"]
        ELSE IF scan # 0 THEN [iso3 |-> iso3, rest_obj |-> scan, via |-> "substring"]
        ELSE [iso3 |-> iso3, rest_obj |-> 0, via |-> "none"]

\* lines 143-157: rest_obj as a reference into rest_all (0: None), and the step that set it
resolve(props, by_cca3, by_name) ==
    LET iso3 == extract_iso3(props)
        \* lines 146-147
        code == IF Truthy(iso3) /\ by_cca3 # <<>> THEN DictGet(by_cca3, Upper(iso3)) ELSE 0
        \* line 150
        geo_name == geo_name_of(props)
        \* line 152
        exact == DictGet(by_name, Lower(geo_name))
        \* lines 154-157
        scan == substring_scan(by_name, Lower(geo_name))
    IN  IF code # 0 THEN [iso3 |-> iso3, rest_obj |-> code, via |-> "code"]
        ELSE IF by_name = <<>> \/ geo_name = <<>>
        THEN [iso3 |-> iso3, rest_obj |-> 0, via |-> "none"]
        ELSE IF exact # 0 THEN [iso3 |-> iso3, rest_obj |-> exact, via |-> "exact"]
        ELSE IF scan # 0 THEN [iso3 |-> iso3, rest_obj |-> scan, via |-> "substring"]
        ELSE [iso3 |-> iso3, rest_obj |-> 0, via |-> "none"]

----------------------------------------------------------------------------
\* Feature loop: display fields (lines 159-176, 204-207)
\*
\* A metadata item is [cca3, common, keys, capital, region, subregion, population,
\* currencies, timezones, languages]: cca3 and common are a str or None; keys is the
\* set of the other fields the item has with a value that is not None; capital,
\* timezones and languages are lists of str, region and subregion str, population
\* a number, currencies a list of [code, name] (name a str or None).

\* rest_obj.get(f) is not None
Has(item, f) == f \in item.keys

\* rest_obj.get(f) is truthy, for a str / list field
HasTruthy(item, f) == Has(item, f) /\ item[f] # <<>>

\* f"{name} ({code})" if name else code
currency_text(c) ==
    IF Truthy(c.name) THEN c.name \o <<" ", "(">> \o c.code \o <<")">> ELSE c.code

\* the strings the popup shows; item is rest_all[rest_obj] when resolved
display_fields(props, iso3, item, resolved) ==
    LET \* lines 165-169
        currencies == IF resolved /\ HasTruthy(item, "currencies")
                      THEN [k \in 1..Len(item.currencies) |-> currency_text(item.currencies[k])]
                      ELSE <<>>
        \* line 170: None, when the item has no timezones, is as falsy as []
        timezones == IF resolved /\ Has(item, "timezones") THEN item.timezones ELSE <<>>
        \* lines 171-173
        languages == IF resolved /\ HasTruthy(item, "languages") THEN item.languages ELSE <<>>
    IN  [\* line 159; "Co" stands for the literal "Country"
         display_name |-> IF resolved THEN item.common ELSE NameOr(props, <<"C", "o">>),
         \* line 160
         iso3_display |-> IF resolved THEN item.cca3 ELSE Or(iso3, Dash),
         \* line 161
         capital |-> IF resolved /\ HasTruthy(item, "capital")
                     THEN Join(CommaSpace, item.capital) ELSE Dash,
         \* lines 162-163: rest_obj.get(...) with no default
         region |-> IF resolved
                    THEN (IF Has(item, "region") THEN item.region ELSE None)
                    ELSE Dash,
         subregion |-> IF resolved
                       THEN (IF Has(item, "subregion") THEN item.subregion ELSE None)
                       ELSE Dash,
         \* lines 164, 207
         population_html |-> IF resolved /\ Has(item, "population") /\ item.population # 0
                             THEN fmt_num(item.population) ELSE Dash,
         \* lines 204-206
         currencies_html |-> IF currencies # <<>> THEN Join(CommaSpace, currencies) ELSE Dash,
         timezones_html |-> IF timezones # <<>> THEN Join(CommaSpace, timezones) ELSE Dash,
         languages_html |-> IF languages # <<>> THEN Join(CommaSpace, languages) ELSE Dash]

----------------
\* Feature loop: geometry analytics (lines 179-202)
\*
\* A geometry is [fails, centroid, bounds, area_m2, proj_fail]:
\*   fails      the first of shape(geom), poly.centroid / centroid.x,
\*              poly.bounds / bbox_to_string that raises for it, "none" when none does
\*   centroid   (x, y) in 1e-7 degrees;  bounds  (minx, miny, maxx, maxy) in 1e-5 degrees
\*   area_m2    the planar area of its projection, per CRS
\*   proj_fail  the CRS ids whose shapely_transform raises for this geometry
\* The results are <<>> for the "—" placeholder and <<value>> otherwise.

AllUnknown == [area_sqkm |-> <<>>, centroid_lat |-> <<>>, centroid_lon |-> <<>>, bbox_str |-> <<>>]

geometry_analytics(geom, tr, e) ==
    IF geom.fails # "none"
    THEN \* lines 184-189 raise: the outer handler, lines 199-202
         AllUnknown
    ELSE LET done == [area_sqkm |-> <<>>,
                      centroid_lon |-> <<RoundDiv(geom.centroid[1], 10)>>,
                      centroid_lat |-> <<RoundDiv(geom.centroid[2], 10)>>,
                      bbox_str |-> <<bbox_to_string(geom.bounds)>>]
         IN  IF tr \notin geom.proj_fail
             THEN \* lines 191-193
                  [done EXCEPT !.area_sqkm = <<RoundDiv(geom.area_m2[tr], 10000)>>]
             ELSE IF Fallback \in e.cons /\ Fallback \notin geom.proj_fail
             THEN \* lines 195-198
                  [done EXCEPT !.area_sqkm = <<RoundDiv(geom.area_m2[Fallback], 10000)>>]
             ELSE \* lines 195-196 raise inside the inner handler: the outer
                  \* handler, lines 199-202, resets all three
                  AllUnknown

----------------------------------------------------------------------------
\* Feature loop: the popup (lines 209-246)

\* line 231, display_name.replace(' ', '_'): AttributeError when display_name is None
popup_raises(fields) == fields.display_name = None

----------------------------------------------------------------------------
\* The script, top to bottom

\* lines 92-96
FetchGeojson ==
    /\ pc = "fetch_geojson"
    /\ LET r == fetch_geojson(geo_remote)
       IN  IF r.raised
           THEN /\ pc' = "stopped"
                /\ shown' = Append(shown, [kind |-> "error",
                                           text |-> "Could not load country GeoJSON"])
                /\ geojson' = geojson
           ELSE /\ pc' = "fetch_rest"
                /\ shown' = shown
                /\ geojson' = r.features
    /\ UNCHANGED <<env, raised, requests, rest_all, rest_msg, rest_by_cca3,
                   rest_by_name_lower, transformer, used_crs, cur, out>>

\* lines 99-104
FetchRest ==
    /\ pc = "fetch_rest"
    /\ LET r == fetch_rest_all_with_fallback(rest_remote)
       IN  /\ requests' = r.requests
           /\ rest_all' = r.data
           /\ rest_msg' = r.msg
           /\ shown' = shown \o fetch_notices(r.data, r.msg)
    /\ pc' = "build_index"
    /\ UNCHANGED <<env, raised, geojson, rest_by_cca3, rest_by_name_lower, transformer,
                   used_crs, cur, out>>

\* lines 107-115
BuildIndex ==
    /\ pc = "build_index"
    /\ rest_by_cca3' = build_by_cca3(rest_all, Len(rest_all))
    /\ rest_by_name_lower' = build_by_name_lower(rest_all, Len(rest_all))
    /\ pc' = "get_transformer"
    /\ UNCHANGED <<env, raised, geojson, requests, rest_all, rest_msg, shown,
                   transformer, used_crs, cur, out>>

\* line 128
GetTransformer ==
    /\ pc = "get_transformer"
    /\ LET r == get_transformer(crs_env)
       IN  IF r.raised
           THEN /\ pc' = "crashed"
                /\ raised' = "CRSError"
                /\ UNCHANGED <<transformer, used_crs>>
           ELSE /\ pc' = "feature_loop"
                /\ raised' = raised
                /\ transformer' = r.transformer
                /\ used_crs' = r.used_crs
    /\ UNCHANGED <<env, geojson, requests, rest_all, rest_msg, shown, rest_by_cca3,
                   rest_by_name_lower, cur, out>>

\* what one iteration of the loop computes for a feature, lines 142-207
Iteration(feature) ==
    LET props == feature.properties
        res == resolve(props, rest_by_cca3, rest_by_name_lower)
        resolved == res.rest_obj # 0
        item == IF resolved THEN rest_all[res.rest_obj] ELSE <<>>
        fields == display_fields(props, res.iso3, item, resolved)
        geo == geometry_analytics(feature.geometry, transformer, crs_env)
    IN  [iso3 |-> res.iso3, rest_obj |-> res.rest_obj, via |-> res.via,
         fields |-> fields, geo |-> geo]

\* lines 141-246, one feature
FeatureLoop ==
    /\ pc = "feature_loop"
    /\ Len(out) < Len(geojson)
    /\ LET feature == geojson[Len(out) + 1]
           rec == Iteration(feature)
       IN  /\ cur' = [index |-> Len(out) + 1, rec |-> rec]
           /\ IF popup_raises(rec.fields)
              THEN /\ pc' = "crashed"
                   /\ raised' = "AttributeError"
                   /\ out' = out
              ELSE /\ pc' = pc
                   /\ raised' = raised
                   /\ out' = Append(out, rec)
    /\ UNCHANGED <<env, geojson, requests, rest_all, rest_msg, shown, rest_by_cca3,
                   rest_by_name_lower, transformer, used_crs>>

\* lines 248-254
RenderMap ==
    /\ pc = "feature_loop"
    /\ Len(out) = Len(geojson)
    /\ pc' = "done"
    /\ shown' = Append(shown, [kind |-> "note", text |-> used_crs])
    /\ UNCHANGED <<env, raised, geojson, requests, rest_all, rest_msg, rest_by_cca3,
                   rest_by_name_lower, transformer, used_crs, cur, out>>

----------------------------------------------------------------------------
\* The inputs the runs are checked on

CRS == {Candidates[k] : k \in 1..Len(Candidates)}

FieldNames == {"capital", "region", "subregion", "population", "currencies",
               "timezones", "languages"}

SeqsUpTo(S, n) == UNION {[1..k -> S] : k \in 0..n}

\* a complete metadata item
Item(cca3, common) ==
    [cca3 |-> cca3, common |-> common, keys |-> FieldNames,
     capital |-> << <<"P">> >>, region |-> <<"E">>, subregion |-> <<"W">>,
     population |-> 67000000,
     currencies |-> <<[code |-> <<"E", "U">>, name |-> <<"e">>]>>,
     timezones |-> << <<"U">>, <<"V">> >>, languages |-> << <<"f">> >>]

\* a polygon every step succeeds on, except the projections in proj_fail
Geom(fails, proj_fail) ==
    [fails |-> fails, centroid |-> <<23456783, 468765437>>,
     bounds |-> <<-514127, 4133384, 955996, 5112413>>,
     area_m2 |-> [c \in CRS |-> IF c = Fallback THEN 2045013000 ELSE 1234567000],
     proj_fail |-> proj_fail]

Feature(props, geom) == [properties |-> props, geometry |-> geom]

EnvOK == [cons |-> CRS, smoke |-> CRS]

GeoOK(features) == [ok |-> TRUE, features |-> features]

RestOK(items) == [first |-> "ok", second |-> "ok", filtered |-> items, full |-> items]

\* one property key with one value, or no key when the value is None
Prop(k, v) == IF v = None THEN <<>> ELSE [x \in {k} |-> v]

\* Resolution scenarios: metadata lists of up to MaxMeta items, one feature
ItemsR ==
    {Item(None, <<"a", "b">>), Item(<<"a">>, <<"a", "b">>), Item(<<"a">>, <<"b", "a">>),
     Item(<<"B">>, <<"A", "B">>), Item(<<"B">>, <<"b">>), Item(None, <<"b", "a", " ">>)}

CodesR == {None, NoData, <<"a">>, <<"b">>, <<"c">>}

NamesR == {<<"a">>, <<"A", "b">>, <<" ", "b", "a", " ">>, <<"B">>, <<"b", "b">>, <<" ">>}

Inputs(g, r, e) ==
    /\ geo_remote = g
    /\ rest_remote = r
    /\ crs_env = e

ScenariosR ==
    \E items \in SeqsUpTo(ItemsR, MaxMeta), c \in CodesR, n \in NamesR :
        Inputs(GeoOK(<<Feature(Prop("ISO_A3", c) @@ Prop("ADMIN", n), Geom("none", {}))>>),
               RestOK(items), EnvOK)

\* Key-order scenarios: up to MaxCodeKeys of the eight code keys and the three name keys
KeyCode(k) == IF k % 2 = 0 THEN <<LowerChars[k]>> ELSE <<UpperChars[k]>>

CodeProps ==
    UNION {[{Keys[k] : k \in K} -> {<<>>, NoData, <<"x">>}] :
              K \in {S \in SUBSET (1..Len(Keys)) : Cardinality(S) <= MaxCodeKeys}}

\* each key's own code put where CodeProps has the stand-in <<"x">>
OwnCodes(p) ==
    [key \in DOMAIN p |->
        IF p[key] = <<"x">>
        THEN KeyCode(CHOOSE k \in 1..Len(Keys) : Keys[k] = key)
        ELSE p[key]]

NameProps ==
    {Prop("ADMIN", a) @@ Prop("NAME", n) @@ Prop("name", m) :
        a \in {None, <<>>, <<"a">>}, n \in {None, <<"b">>}, m \in {None, <<"c">>}}

ItemsK ==
    <<Item(<<"D">>, <<"d", "d">>), Item(<<"a">>, <<"A">>), Item(<<"h">>, <<"c">>),
      Item(None, <<"B">>)>>

ScenariosK ==
    \/ \E p \in CodeProps :
          Inputs(GeoOK(<<Feature(OwnCodes(p), Geom("none", {}))>>), RestOK(ItemsK), EnvOK)
    \/ \E c \in {None, NoData, <<"d">>}, q \in NameProps :
          Inputs(GeoOK(<<Feature(Prop("ISO_A3", c) @@ q, Geom("none", {}))>>),
                 RestOK(ItemsK), EnvOK)

\* Field scenarios: one item having any subset of the fields, some of them empty
ItemsF ==
    {[Item(<<"F">>, <<"f", "r">>) EXCEPT !.keys = ks, !.capital = cap,
                                          !.population = pop, !.timezones = tz] :
        ks \in SUBSET FieldNames, cap \in {<<>>, << <<"P">>, <<"Q">> >>},
        pop \in {0, 999, 67000000}, tz \in {<<>>, << <<"U">> >>}}

ScenariosF ==
    \E it \in ItemsF, c \in {<<"F">>, <<"G">>} :
        Inputs(GeoOK(<<Feature(Prop("ADM0_A3", c), Geom("none", {}))>>), RestOK(<<it>>), EnvOK)

\* Geometry scenarios: up to MaxFeatures features, each with its own geometry
GeomsG ==
    {Geom(f, {}) : f \in {"shape", "centroid", "bounds"}}
    \cup {Geom("none", pf) : pf \in {{}, {"EPSG:6933"}, {"EPSG:3857"},
                                     {"EPSG:6933", "EPSG:3857"}, CRS}}

EnvsG ==
    {EnvOK, [cons |-> CRS \ {"EPSG:6933"}, smoke |-> CRS],
     [cons |-> CRS \ {"EPSG:3857"}, smoke |-> CRS],
     [cons |-> {"EPSG:3857"}, smoke |-> CRS]}

MetaG ==
    {<<>>, <<Item(<<"F">>, <<"f", "r">>)>>, <<Item(<<"F">>, None)>>,
     <<Item(<<"F">>, <<"f", "r">>), Item(<<"G">>, None)>>}

FeaturesG ==
    {Feature(Prop("ISO_A3", c) @@ Prop("NAME", <<"f", "r">>), g) :
        c \in {<<"F">>, <<"G">>}, g \in GeomsG}

ScenariosG ==
    \E fs \in SeqsUpTo(FeaturesG, MaxFeatures), items \in MetaG, e \in EnvsG :
        Inputs(GeoOK(fs), RestOK(items), e)

\* Projection scenarios: every combination of failing constructions and smoke tests
ScenariosP ==
    \E g \in {Geom("none", {}), Geom("none", {"EPSG:6933", "ESRI:54009"})},
       c \in SUBSET CRS, sm \in SUBSET CRS :
        Inputs(GeoOK(<<Feature(Prop("ISO_A3", <<"F">>), g)>>),
               RestOK(<<Item(<<"F">>, <<"f">>)>>), [cons |-> c, smoke |-> sm])

\* Network scenarios: every outcome of the two requests and of the GeoJSON fetch
ScenariosN ==
    \E g \in BOOLEAN, o1 \in NetOutcomes, o2 \in NetOutcomes,
       fl \in {<<>>, <<Item(<<"F">>, <<"f">>)>>},
       fu \in {<<>>, <<Item(<<"F">>, <<"f">>), Item(<<"G">>, <<"g">>)>>} :
        Inputs([ok |-> g,
                features |-> <<Feature(Prop("ISO_A3", <<"F">>) @@ Prop("NAME", <<"f">>),
                                       Geom("none", {})),
                               Feature(Prop("NAME", <<"g">>), Geom("shape", {}))>>],
               [first |-> o1, second |-> o2, filtered |-> fl, full |-> fu], EnvOK)

Scenarios ==
    \/ ScenariosR
    \/ ScenariosK
    \/ ScenariosF
    \/ ScenariosG
    \/ ScenariosP
    \/ ScenariosN

----------------------------------------------------------------------------
Init ==
    /\ Scenarios
    /\ pc = "fetch_geojson"
    /\ raised = ""
    /\ geojson = <<>>
    /\ requests = <<>>
    /\ rest_all = <<>>
    /\ rest_msg = MsgNone
    /\ shown = <<>>
    /\ rest_by_cca3 = <<>>
    /\ rest_by_name_lower = <<>>
    /\ transformer = ""
    /\ used_crs = ""
    /\ cur = [index |-> 0, rec |-> <<>>]
    /\ out = <<>>

Next ==
    \/ FetchGeojson
    \/ FetchRest
    \/ BuildIndex
    \/ GetTransformer
    \/ FeatureLoop
    \/ RenderMap

Spec == Init /\ [][Next]_vars

----------------------------------------------------------------------------
\* What the claims speak about

\* the loop has run at least one iteration; cur holds the latest one
Ran == cur.index > 0

CurProps == geojson[cur.index].properties

CurGeom == geojson[cur.index].geometry

\* the candidate code of the latest feature, read off its properties: the value of
\* the first key, in the fixed order, that is present, non-empty and not "-99"
GoodKeys(props) ==
    {k \in 1..Len(Keys) :
        Keys[k] \in DOMAIN props /\ props[Keys[k]] # <<>> /\ props[Keys[k]] # NoData}

FirstOf(S) == CHOOSE k \in S : \A h \in S : k <= h

LastOf(S) == CHOOSE k \in S : \A h \in S : h <= k

\* the positions in the metadata response of the items with this code, upper-cased
WithCode(code) ==
    {j \in 1..Len(rest_all) : Truthy(rest_all[j].cca3) /\ Upper(rest_all[j].cca3) = code}

\* the positions of the items with this common name, lower-cased
WithName(name) ==
    {j \in 1..Len(rest_all) : Truthy(rest_all[j].common) /\ Lower(rest_all[j].common) = name}

\* the positions of the items whose lower-cased common name contains the name
Containing(name) ==
    {j \in 1..Len(rest_all) :
        Truthy(rest_all[j].common) /\ Contains(Lower(rest_all[j].common), name)}

\* the feature's name as line 150 extracts it, lower-cased
CurName == Lower(geo_name_of(CurProps))

\* the latest feature has a candidate code that is a key of the code index
CodeMatched ==
    /\ Truthy(cur.rec.iso3)
    /\ HasKey(rest_by_cca3, Upper(cur.rec.iso3))

----------------------------------------------------------------------------
\* C1: a feature whose candidate code, upper-cased, is a key of the code index is
\* resolved to the record stored under that key (the last item of the response
\* with that code), by the code step, whatever its name properties hold.
C1_CodeMatchWins ==
    (Ran /\ CodeMatched) =>
        /\ cur.rec.via = "code"
        /\ \E j \in 1..Len(rest_by_cca3) :
              /\ rest_by_cca3[j].key = Upper(cur.rec.iso3)
              /\ rest_by_cca3[j].val = cur.rec.rest_obj
        /\ cur.rec.rest_obj = LastOf(WithCode(Upper(cur.rec.iso3)))

\* a code-matched feature whose name is the exact common name of another record
C1_Witness ==
    /\ Ran /\ CodeMatched
    /\ WithName(CurName) # {}
    /\ cur.rec.rest_obj \notin WithName(CurName)
    /\ cur.rec.via = "code"

\* C2: a feature without a code match whose extracted name equals, ignoring case,
\* the common name of a metadata record is resolved to the record stored under
\* that lower-cased name (the last item of the response with that name), by the
\* exact step, never to a record that merely contains the name.
C2_ExactNameMatch ==
    (Ran /\ ~CodeMatched /\ CurName # <<>> /\ WithName(CurName) # {}) =>
        /\ cur.rec.via = "exact"
        /\ cur.rec.rest_obj = DictGet(rest_by_name_lower, CurName)
        /\ cur.rec.rest_obj = LastOf(WithName(CurName))
        /\ Lower(rest_all[cur.rec.rest_obj].common) = CurName

\* an exact name match while an earlier entry of the name index contains the name
C2_Witness ==
    /\ Ran /\ ~CodeMatched /\ CurName # <<>> /\ WithName(CurName) # {}
    /\ cur.rec.via = "exact"
    /\ FirstOf(Containing(CurName)) \notin WithName(CurName)

\* C8: the candidate code is the value of the first key, in the order ISO_A3, ISO3,
\* iso_a3, ADM0_A3, adm0_a3, CCA3, cca3, ISO_A3_EH, whose value is non-empty and
\* not "-99"; there is none when no key has such a value, and the feature is then
\* resolved by its name alone.
C8_ExtractIso3 ==
    Ran =>
        IF GoodKeys(CurProps) = {}
        THEN /\ cur.rec.iso3 = None
             /\ cur.rec.via # "code"
             /\ (CurName # <<>> /\ WithName(CurName) # {}) => cur.rec.via = "exact"
        ELSE cur.rec.iso3 = CurProps[Keys[FirstOf(GoodKeys(CurProps))]]

\* ISO_A3 = "-99" and ADM0_A3 = a code of the index: the candidate is the ADM0_A3 code
C8_Witness ==
    /\ Ran
    /\ Get(CurProps, "ISO_A3") = NoData
    /\ Truthy(Get(CurProps, "ADM0_A3"))
    /\ cur.rec.iso3 = Get(CurProps, "ADM0_A3")
    /\ cur.rec.via = "code"

\* C9: the substring fallback decides only when there is no code match, no exact
\* name match and a non-empty name; it returns the record of the first name, in
\* the order of first occurrence in the metadata response, that contains the
\* feature's name; when no name contains it, or the name is empty, the feature
\* without a code match is unresolved.
C9_SubstringFallback ==
    Ran =>
        /\ cur.rec.via = "substring" =>
              /\ ~CodeMatched
              /\ WithName(CurName) = {}
              /\ CurName # <<>>
        /\ (~CodeMatched /\ WithName(CurName) = {} /\ CurName # <<>>
              /\ Containing(CurName) # {}) =>
              /\ cur.rec.via = "substring"
              /\ cur.rec.rest_obj =
                    LastOf(WithName(Lower(rest_all[FirstOf(Containing(CurName))].common)))
        /\ (~CodeMatched /\ (CurName = <<>> \/ Containing(CurName) = {})) =>
              /\ cur.rec.via = "none"
              /\ cur.rec.rest_obj = 0

\* two names contain the feature's name, and the first one occurs again later in
\* the response: its record is the later item, its place the earlier one
C9_Witness ==
    /\ Ran /\ cur.rec.via = "substring"
    /\ \E j \in Containing(CurName) :
          Lower(rest_all[j].common) # Lower(rest_all[FirstOf(Containing(CurName))].common)
    /\ cur.rec.rest_obj # FirstOf(Containing(CurName))
    /\ \E j \in Containing(CurName) :
          /\ j < cur.rec.rest_obj
          /\ Lower(rest_all[j].common) # Lower(rest_all[cur.rec.rest_obj].common)

----------------------------------------------------------------------------
\* get_transformer has returned or raised
Selected == pc \in {"feature_loop", "done"} \/ raised \in {"CRSError", "AttributeError"}

\* the candidates that can be constructed and pass the smoke test, by position
Working == {k \in 1..Len(Candidates) : CandidateWorks(crs_env, Candidates[k])}

\* the area of the latest feature could be computed with neither transformer
AreaFailedTwice ==
    /\ CurGeom.fails = "none"
    /\ transformer \in CurGeom.proj_fail
    /\ (Fallback \in CurGeom.proj_fail \/ Fallback \notin crs_env.cons)

MetadataFields ==
    {"capital", "region", "subregion", "population_html", "currencies_html",
     "timezones_html", "languages_html"}

\* the field of the item a display field is derived from
SourceOf(f) ==
    CASE f = "population_html" -> "population"
      [] f = "currencies_html" -> "currencies"
      [] f = "timezones_html" -> "timezones"
      [] f = "languages_html" -> "languages"
      [] OTHER -> f

\* C3: when the area cannot be computed with the selected transformer nor with the
\* EPSG:3857 fallback, only the area is the placeholder: the centroid and the
\* bounding box computed before are kept.
C3_AreaFailureKeepsCentroid ==
    (Ran /\ AreaFailedTwice) =>
        /\ cur.rec.geo.area_sqkm = <<>>
        /\ cur.rec.geo.centroid_lat # <<>>
        /\ cur.rec.geo.centroid_lon # <<>>
        /\ cur.rec.geo.bbox_str # <<>>

\* C4: a feature whose geometry is null or malformed gets the placeholder for
\* centroid, bounding box and area, its iteration raises nothing, and the loop goes
\* on: its popup is added and the script is not ended by it.
C4_BadGeometryAbsorbed ==
    (Ran /\ CurGeom.fails # "none") =>
        /\ cur.rec.geo = AllUnknown
        /\ raised = ""
        /\ Len(out) = cur.index
        /\ pc \in {"feature_loop", "done"}

\* C5: every metadata-derived field of the popup is the "—" placeholder when no
\* record was resolved or the record lacks the field, and is never None.
C5_FieldsDefaulted ==
    Ran =>
        \A f \in MetadataFields :
            /\ cur.rec.fields[f] # None
            /\ (cur.rec.rest_obj = 0 \/ ~Has(rest_all[cur.rec.rest_obj], SourceOf(f)))
                  => cur.rec.fields[f] = Dash

\* C6: the loop adds one popup per feature, in input order, and no feature makes it
\* raise: no resolution outcome (a record without a common name included) and no
\* geometry failure ends the loop before the features after it.
C6_OnePopupPerFeature ==
    /\ raised # "AttributeError"
    /\ pc = "done" => Len(out) = Len(geojson)
    /\ \A k \in 1..Len(out) : out[k].iso3 = extract_iso3(geojson[k].properties)

\* C7 as stated: the first candidate, in the order EPSG:6933, ESRI:54009, EPSG:3857,
\* that can be constructed and passes the smoke test is selected; when every
\* candidate fails an EPSG:3857 transformer is returned with used_crs "EPSG:3857";
\* the selection is the same in every state from the loop on.
C7_AsStated ==
    Selected =>
        IF Working # {}
        THEN /\ used_crs = Candidates[FirstOf(Working)]
             /\ transformer = used_crs
        ELSE /\ used_crs = "EPSG:3857"
             /\ transformer = "EPSG:3857"
             /\ raised # "CRSError"

\* C7 amended: as stated, except that with every candidate failing the EPSG:3857
\* transformer is returned only if its construction, repeated outside the try,
\* succeeds; when it fails too the exception leaves get_transformer, nothing is
\* selected and the feature loop never starts.
C7_Selection ==
    Selected =>
        IF Working # {}
        THEN /\ used_crs = Candidates[FirstOf(Working)]
             /\ transformer = used_crs
             /\ raised # "CRSError"
        ELSE IF "EPSG:3857" \in crs_env.cons
        THEN /\ used_crs = "EPSG:3857"
             /\ transformer = "EPSG:3857"
             /\ raised # "CRSError"
        ELSE /\ raised = "CRSError"
             /\ pc = "crashed"
             /\ used_crs = ""
             /\ transformer = ""
             /\ ~Ran

\* the first candidate fails, the second is selected, and the loop has run with it
C7_Witness ==
    /\ pc = "done" /\ Ran
    /\ 1 \notin Working
    /\ used_crs = "ESRI:54009"
    /\ transformer = "ESRI:54009"

\* C10: fetch_rest_all_with_fallback raises nothing and issues the filtered request,
\* then the unfiltered one only if the filtered one failed; the result is
\* (filtered data, None) exactly when the filtered request succeeded, (full data,
\* a message) when only the unfiltered one did, ([], the failure message) when both
\* failed; with the empty list the script goes on, the maps are empty and every
\* feature is unresolved.
C10_FetchWithFallback ==
    requests # <<>> =>
          /\ pc \in {"build_index", "get_transformer", "feature_loop", "done", "crashed"}
          /\ requests[1] = "filtered"
          /\ Len(requests) <= 2
          /\ Len(requests) = 2 <=> rest_remote.first # "ok"
          /\ Len(requests) = 2 => requests[2] = "unfiltered"
          /\ rest_msg = MsgNone <=> rest_remote.first = "ok"
          /\ rest_remote.first = "ok" => rest_all = rest_remote.filtered
          /\ (rest_remote.first # "ok" /\ rest_remote.second = "ok") =>
                /\ rest_all = rest_remote.full
                /\ rest_msg \notin {MsgNone, ""}
          /\ (rest_remote.first # "ok" /\ rest_remote.second # "ok") =>
                /\ rest_all = <<>>
                /\ rest_msg = MsgFailed
          /\ rest_all = <<>> =>
                /\ raised # "AttributeError"
                /\ pc = "crashed" => raised = "CRSError"
                /\ pc # "build_index" =>
                      rest_by_cca3 = <<>> /\ rest_by_name_lower = <<>>
                /\ \A k \in 1..Len(out) : out[k].rest_obj = 0
                /\ Ran => cur.rec.rest_obj = 0

\* both requests failed and the script still rendered every feature, unresolved
C10_Witness ==
    /\ pc = "done"
    /\ rest_remote.first # "ok" /\ rest_remote.second # "ok"
    /\ requests = <<"filtered", "unfiltered">>
    /\ Len(out) = Len(geojson) /\ Len(out) > 1
    /\ \A k \in 1..Len(out) : out[k].rest_obj = 0

====
